---- MODULE Spec2Model ----
(***************************************************************************)
(* A model of pythonfinder's models/python.py: the VersionMap aggregation, *)
(* the PythonVersion model and the PythonFinder engine.                     *)
(***************************************************************************)
EXTENDS Integers, Sequences, FiniteSets, TLC

VARIABLES
    versions,   \* VersionMap.versions of every map: key -> list object or NoList
    lists,      \* the heap of list objects: list object -> sequence of entries
    factory,    \* the default_factory of every map's defaultdict
    vmcall,     \* the last VersionMap call and how it ended
    pv,         \* the PythonVersion instances: their attributes
    probe,      \* what get_python_version yields for the executable
    pecache,    \* the paths parse_executable's lru_cache holds a result for
    nres,       \* per instance, the parse_executable calls __getattribute__ made
    pcall,      \* the last PythonVersion call and how it ended
    fs,         \* the directories root.glob(version_glob_path) yields, in order
    declared,   \* the version manager's declared order of directory names
    tolerant,   \* PythonFinder.ignore_unsupported
    paths,      \* PythonFinder.paths
    roots,      \* PythonFinder.roots: the directories it holds an entry for
    fversions,  \* PythonFinder._versions: dedup key -> directory
    fcall,      \* the last PythonFinder call and how it ended
    locs,       \* the PathEntry objects from_path is called with
    IGNORE_UNSUPPORTED, \* environment.IGNORE_UNSUPPORTED
    strcache,   \* the lru_cache of parse: version string -> dict object
    execache,   \* the lru_cache of parse_executable: path -> dict object
    fpcall,     \* the last from_path call and how it ended
    ncalls      \* the number of calls made so far

ivars == <<versions, lists, factory, vmcall>>

pvars == <<pv, probe, pecache, nres, pcall>>

fvars == <<fs, declared, tolerant, paths, roots, fversions, fcall>>

lvars == <<locs, IGNORE_UNSUPPORTED, strcache, execache, fpcall>>

vars ==
    <<versions, lists, factory, vmcall, pv, probe, pecache, nres, pcall,
      fs, declared, tolerant, paths, roots, fversions, fcall,
      locs, IGNORE_UNSUPPORTED, strcache, execache, fpcall, ncalls>>

(***************************************************************************)
(* Bounds of the model.                                                     *)
(***************************************************************************)
NumPaths == 2
MaxCalls == 5
MaxRes == 2
NumDirs == 2
MaxScans == 2

\* two VersionMap instances (a self and a target) and two dedup keys
Maps == {1, 2}
VKeys == {1, 2}
Paths == 1..NumPaths

None == "None"

(***************************************************************************)
(* VersionMap (python.py 653-681).  An entry is a PathEntry seen through    *)
(* the two attributes the class reads: path, and as_python.version_tuple    *)
(* (None when the entry has no resolved version).  A list object is named   *)
(* by the map and key whose defaultdict created it; after merge has adopted *)
(* a list, two maps hold the same object.                                   *)
(***************************************************************************)
\* an entry without a resolved version (as_python is None) has key NoKey
NoKey == 0

Entries == [path : Paths, key : VKeys \cup {NoKey}]

NoList == <<>>

ListRefs == Maps \X VKeys

\* p.path for p in a list
PathsOf(seq) == {seq[i].path : i \in 1..Len(seq)}

\* self.versions[version] as a sequence; a missing key reads as the empty list
EntriesOf(vs, ls, m, k) == IF vs[m][k] = NoList THEN <<>> ELSE ls[vs[m][k]]

IdleVM ==
    /\ versions = [m \in Maps |-> [k \in VKeys |-> NoList]]
    /\ lists = [r \in ListRefs |-> <<>>]
    /\ factory = [m \in Maps |-> None]
    /\ vmcall = [op |-> "init", self |-> 0, target |-> 0, outcome |-> None]

VMInit ==
    /\ versions = [m \in Maps |-> [k \in VKeys |-> NoList]]
    /\ lists = [r \in ListRefs |-> <<>>]
    /\ factory \in [Maps -> {"list", None}]
    /\ vmcall = [op |-> "init", self |-> 0, target |-> 0, outcome |-> None]
    /\ ncalls = 0

\* _ = self.versions[key]: the defaultdict lookup of line 662
Lookup(m, k) ==
    IF versions[m][k] # NoList THEN "found"
    ELSE IF factory[m] = "list" THEN "list" ELSE "KeyError"

\* entry.path not in paths, line 664
AddIsNew_Always(seq, e) == TRUE

AddIsNew(seq, e) == e.path \notin PathsOf(seq)

add_entry(m, e) ==
    /\ vmcall' = [op |-> "add_entry", self |-> m, target |-> 0,
                  outcome |-> IF e.key = NoKey THEN "no version"
                              ELSE IF Lookup(m, e.key) = "KeyError" THEN "KeyError"
                              ELSE IF AddIsNew(EntriesOf(versions, lists, m, e.key), e)
                                   THEN "appended" ELSE "present"]
    /\ IF e.key = NoKey \/ Lookup(m, e.key) = "KeyError"
       THEN UNCHANGED <<versions, lists>>
       ELSE LET k == e.key
                created == Lookup(m, k) = "list"
                ref == IF created THEN <<m, k>> ELSE versions[m][k]
                cur == IF created THEN <<>> ELSE lists[ref]
            IN  /\ versions' = [versions EXCEPT ![m][k] = ref]
                /\ lists' = [lists EXCEPT ![ref] =
                                IF AddIsNew(cur, e) THEN Append(cur, e) ELSE cur]
    /\ UNCHANGED factory

\* [e for e in entries if e.path in new_entries], lines 672-681
MergeNew_All(cur, entries) == entries

MergeNew(cur, entries) ==
    LET current_entries == PathsOf(cur)
        new_entries == PathsOf(entries) \ current_entries
        Keep(e) == e.path \in new_entries
    IN  SelectSeq(entries, Keep)

\* the versions and lists after self.merge(target), from the state (vs, ls).
\* The loop visits target's keys in the dict's order; a key's iteration reads
\* and writes only that key's list objects, so the order does not show.
MergeVersions_Overwrite(vs, s, t) ==
    [vs EXCEPT ![s] = [k \in VKeys |->
        IF vs[t][k] # NoList THEN vs[t][k] ELSE vs[s][k]]]

MergeVersions(vs, s, t) ==
    [vs EXCEPT ![s] = [k \in VKeys |->
        IF vs[t][k] # NoList /\ vs[s][k] = NoList THEN vs[t][k] ELSE vs[s][k]]]

MergeLists(vs, ls, s, t) ==
    [r \in ListRefs |->
        IF \E k \in VKeys : /\ vs[t][k] # NoList
                            /\ vs[s][k] = r
        THEN LET k == CHOOSE k \in VKeys : vs[t][k] # NoList /\ vs[s][k] = r
             IN  ls[r] \o MergeNew(ls[r], ls[vs[t][k]])
        ELSE ls[r]]

merge(s, t) ==
    /\ vmcall' = [op |-> "merge", self |-> s, target |-> t,
                  outcome |-> IF /\ MergeVersions(versions, s, t) = versions
                                 /\ MergeLists(versions, lists, s, t) = lists
                              THEN "unchanged" ELSE "changed"]
    /\ versions' = MergeVersions(versions, s, t)
    /\ lists' = MergeLists(versions, lists, s, t)
    /\ UNCHANGED factory

(***************************************************************************)
(* PythonVersion (python.py 329-650).  An integer attribute that is None    *)
(* is NoInt; a string attribute that is None is None.  A name is a sequence *)
(* of characters, NoName when it is None.                                   *)
(***************************************************************************)
NoInt == -1

NoName == <<0>>

\* the one executable file of the model; an instance's comes_from, when
\* known, is the PathEntry of that file
ExePath == "exe"

Insts == {1, 2}

\* what parse returns for a version string: the attributes it sets
ParsedDicts ==
    [major : {3}, minor : {NoInt, 9}, patch : {NoInt, 1},
     is_prerelease : BOOLEAN, is_postrelease : {FALSE}, is_devrelease : {FALSE},
     is_debug : {FALSE}, version : {"Version"}]

NoDict ==
    [major |-> NoInt, minor |-> NoInt, patch |-> NoInt, is_prerelease |-> FALSE,
     is_postrelease |-> FALSE, is_devrelease |-> FALSE, is_debug |-> FALSE,
     version |-> None]

\* get_python_version followed by parse: failure, or the parsed output
ProbeOutcomes ==
    {[ok |-> FALSE, d |-> NoDict]} \cup
    {[ok |-> TRUE, d |-> d] : d \in {x \in ParsedDicts : x.minor = 9 /\ ~x.is_prerelease}}

\* a call in progress: the instance, the lru_cache of parse_executable, the
\* number of resolutions, the exception raised (None: none) and the value of
\* the last expression
Ctx(self, cache, n) ==
    [self |-> self, cache |-> cache, nres |-> n, raised |-> None, val |-> NoInt]

\* parse_executable(path), lines 582-600: the cached result, or the probe
ParseExecutable(ctx, path) ==
    IF path \in ctx.cache THEN [ctx |-> ctx, d |-> probe[path].d]
    ELSE IF ~probe[path].ok
         THEN [ctx |-> [ctx EXCEPT !.raised = "ValueError"], d |-> NoDict]
         ELSE [ctx |-> [ctx EXCEPT !.cache = @ \cup {path}], d |-> probe[path].d]

\* setattr(self, k, instance_dict[k]) for every key of the dict, lines 357-363
SetFromDict(self, d) ==
    [self EXCEPT !.major = d.major, !.minor = d.minor, !.patch = d.patch,
                 !.is_prerelease = d.is_prerelease,
                 !.is_postrelease = d.is_postrelease,
                 !.is_devrelease = d.is_devrelease,
                 !.is_debug = d.is_debug, !.version = d.version]

\* the executable __getattribute__ resolves from, lines 348-352
ResolvePath(self) ==
    IF self.executable # None THEN self.executable
    ELSE IF self.comes_from # None THEN self.comes_from
    ELSE None

\* __getattribute__(key) for key in minor, patch: lines 345-365
GetAttribute(ctx, key) ==
    IF ctx.raised # None THEN ctx
    ELSE IF ctx.self[key] # NoInt THEN [ctx EXCEPT !.val = ctx.self[key]]
    ELSE IF ResolvePath(ctx.self) = None THEN [ctx EXCEPT !.val = NoInt]
    ELSE LET r == ParseExecutable([ctx EXCEPT !.nres = @ + 1], ResolvePath(ctx.self))
         IN  IF r.ctx.raised # None THEN r.ctx
             ELSE [r.ctx EXCEPT !.self = SetFromDict(@, r.d), !.val = r.d[key]]

\* release_sort, lines 380-388
ReleaseSort(self) ==
    IF self.is_postrelease THEN 3
    ELSE IF self.is_prerelease THEN 1
    ELSE IF self.is_devrelease THEN 0
    ELSE IF self.is_debug THEN 1
    ELSE 2

\* version_sort, lines 367-395: company_sort, release_sort and self.major are
\* read before self.minor and self.patch, whose reads may resolve the
\* instance.  val is not used; the key is meaningful when nothing was raised.
version_sort(ctx) ==
    LET company_sort == IF ctx.self.company = "PythonCore" THEN 1 ELSE 0
        release_sort == ReleaseSort(ctx.self)
        major == ctx.self.major
        c1 == GetAttribute(ctx, "minor")
        c2 == GetAttribute(c1, "patch")
        patch == IF c2.val = NoInt \/ c2.val = 0 THEN 0 ELSE c2.val
    IN  [ctx |-> c2,
         key |-> IF c2.raised # None THEN <<0, 0, 0, 0, 0>>
                 ELSE <<company_sort, major, c1.val, patch, release_sort>>]

\* the comparison of two rank keys as sorted() makes it: tuples compare at
\* the first position where they differ, and None against an int is a
\* TypeError.  Only the minor, position 3, can be None.
KeyCompare(ka, kb) ==
    IF ka = kb THEN "eq"
    ELSE LET i == CHOOSE i \in 1..5 : ka[i] # kb[i] /\ \A j \in 1..(i - 1) : ka[j] = kb[j]
         IN  IF i = 3 /\ (ka[i] = NoInt \/ kb[i] = NoInt) THEN "TypeError"
             ELSE IF ka[i] < kb[i] THEN "lt" ELSE "gt"

\* the architecture strings of the model and str.isdigit on them
IsDigit(a) == a \in {"32", "64"}

AddBit(a) == IF a = "64" THEN "64bit" ELSE IF a = "32" THEN "32bit" ELSE a

\* platform.architecture of any file of the model
PlatformArch == "64bit"

\* get_architecture, lines 511-522: caches the architecture on the instance
get_architecture(ctx) ==
    IF ctx.self.architecture # None /\ ctx.self.architecture # ""
    THEN ctx
    ELSE [ctx EXCEPT !.self.architecture = PlatformArch]

\* str.startswith
StartsWith(str, prefix) ==
    /\ Len(prefix) <= Len(str)
    /\ SubSeq(str, 1, Len(prefix)) = prefix

\* the predicate of matches: an unset field is NoInt, None or NoName; the
\* three flags are "None", "True" or "False"
FlagIs(flag, want) == (want = "True") = flag

\* the name clause of matches, lines 439-443
NameMatches(self, python_name) ==
    \/ python_name = NoName
    \/ /\ python_name # <<>>
       /\ self.name # NoName
       /\ self.name # <<>>
       /\ (self.name = python_name \/ StartsWith(self.name, python_name))

\* matches, lines 415-446: the conjuncts are evaluated left to right and the
\* evaluation stops at the first false one.  own_arch is bound only when arch
\* is a non-empty string (line 427), and read when arch is not None (line 437).
matches(ctx, q) ==
    LET a0 == IF q.arch # None /\ q.arch # "" THEN get_architecture(ctx) ELSE ctx
        arch == IF q.arch # None /\ IsDigit(q.arch) THEN AddBit(q.arch) ELSE q.arch
        own_arch == a0.self.architecture
        m1 == q.major = NoInt \/ a0.self.major = q.major
        c2 == IF m1 /\ q.minor # NoInt THEN GetAttribute(a0, "minor") ELSE a0
        m2 == m1 /\ c2.raised = None /\ (q.minor = NoInt \/ c2.val = q.minor)
        c3 == IF m2 /\ q.patch # NoInt THEN GetAttribute(c2, "patch") ELSE c2
        m3 == m2 /\ c3.raised = None /\ (q.patch = NoInt \/ c3.val = q.patch)
        m4 == m3 /\ (q.pre = "None" \/ FlagIs(c3.self.is_prerelease, q.pre))
        m5 == m4 /\ (q.dev = "None" \/ FlagIs(c3.self.is_devrelease, q.dev))
        unbound == m5 /\ q.arch = ""
        c6 == IF unbound THEN [c3 EXCEPT !.raised = "UnboundLocalError"] ELSE c3
        m6 == m5 /\ ~unbound /\ (q.arch = None \/ own_arch = arch)
        m7 == m6 /\ (q.debug = "None" \/ FlagIs(c6.self.is_debug, q.debug))
        m8 == m7 /\ NameMatches(c6.self, q.name)
    IN  [ctx |-> c6, result |-> m8]

NoCall ==
    [op |-> "init", inst |-> 0, raised |-> None, val |-> NoInt, ok |-> FALSE,
     ka |-> <<>>, kb |-> <<>>, cmp |-> None]

IdlePV ==
    /\ pv = [i \in Insts |-> NoDict]
    /\ probe = [x \in {ExePath} |-> [ok |-> FALSE, d |-> NoDict]]
    /\ pecache = {}
    /\ nres = [i \in Insts |-> 0]
    /\ pcall = NoCall

\* the attributes of an instance, lines 331-343
PyModels(mi, pa, pre, post, dev, dbg, co, exe, from, nm, ar) ==
    [major : {3}, minor : mi, patch : pa,
     is_prerelease : pre, is_postrelease : post, is_devrelease : dev,
     is_debug : dbg, version : {"Version"}, architecture : ar,
     comes_from : from, executable : exe, company : co, name : nm]

\* instances whose minor or patch may be unset, with or without an executable
LazyModels ==
    PyModels({NoInt, 9}, {NoInt, 1}, {FALSE}, {FALSE}, {FALSE}, {FALSE}, {None},
             {None, ExePath}, {None, ExePath}, {NoName, <<1, 2>>}, {None})

\* instances without an executable, to rank the first instance against
PeerModels ==
    PyModels({NoInt, 9}, {1}, {FALSE}, {FALSE}, {FALSE}, {FALSE}, {None},
             {None}, {None}, {NoName}, {None})

\* instances with every combination of the four release flags
RankModels ==
    PyModels({NoInt, 9}, {1}, BOOLEAN, BOOLEAN, BOOLEAN, BOOLEAN,
             {None, "PythonCore"}, {None}, {None}, {NoName}, {None})

\* the predicates matches is called with: the defaults of lines 417-424
\* (pre, dev and debug default to False), one field set, or all set
NoQuery ==
    [major |-> NoInt, minor |-> NoInt, patch |-> NoInt, pre |-> "False",
     dev |-> "False", arch |-> None, debug |-> "False", name |-> NoName]

Queries ==
    {NoQuery,
     [NoQuery EXCEPT !.major = 3], [NoQuery EXCEPT !.minor = 9],
     [NoQuery EXCEPT !.patch = 1], [NoQuery EXCEPT !.pre = "None"],
     [NoQuery EXCEPT !.arch = ""], [NoQuery EXCEPT !.arch = "64"],
     [NoQuery EXCEPT !.name = <<1>>], [NoQuery EXCEPT !.name = <<>>],
     [NoQuery EXCEPT !.major = 3, !.minor = 9, !.patch = 1, !.arch = "64bit",
                     !.name = <<1, 2>>]}

PVInit ==
    /\ \E a \in LazyModels, b \in PeerModels :
            pv = [i \in Insts |-> IF i = 1 THEN a ELSE b]
    /\ probe \in [{ExePath} -> ProbeOutcomes]
    /\ pecache = {}
    /\ nres = [i \in Insts |-> 0]
    /\ pcall = NoCall

RankInit ==
    /\ \E a \in RankModels, b \in RankModels :
            pv = [i \in Insts |-> IF i = 1 THEN a ELSE b]
    /\ probe = [x \in {ExePath} |-> [ok |-> FALSE, d |-> NoDict]]
    /\ pecache = {}
    /\ nres = [i \in Insts |-> 0]
    /\ pcall = NoCall

\* the effect of a finished call on the instance and the caches
Commit(i, ctx) ==
    /\ pv' = [pv EXCEPT ![i] = ctx.self]
    /\ pecache' = ctx.cache
    /\ nres' = [nres EXCEPT ![i] = ctx.nres]
    /\ UNCHANGED probe

\* reading self.minor or self.patch
ReadAttr(i, key) ==
    LET c == GetAttribute(Ctx(pv[i], pecache, nres[i]), key)
    IN  /\ Commit(i, c)
        /\ pcall' = [NoCall EXCEPT !.op = key, !.inst = i, !.raised = c.raised,
                                   !.val = c.val]

\* reading self.version_sort
ReadVersionSort(i) ==
    LET r == version_sort(Ctx(pv[i], pecache, nres[i]))
    IN  /\ Commit(i, r.ctx)
        /\ pcall' = [NoCall EXCEPT !.op = "version_sort", !.inst = i,
                                   !.raised = r.ctx.raised, !.ka = r.key]

\* self.matches(...)
CallMatches(i, q) ==
    LET r == matches(Ctx(pv[i], pecache, nres[i]), q)
    IN  /\ Commit(i, r.ctx)
        /\ pcall' = [NoCall EXCEPT !.op = "matches", !.inst = i,
                                   !.raised = r.ctx.raised, !.ok = r.result]

\* the rank keys of both instances, taken and compared as sorted() does with
\* key=version_sort: every key is computed first, then the keys are compared
RankCompare ==
    LET ra == version_sort(Ctx(pv[1], pecache, nres[1]))
        rb == IF ra.ctx.raised # None THEN ra
              ELSE version_sort(Ctx(pv[2], ra.ctx.cache, nres[2]))
        raised == IF ra.ctx.raised # None THEN ra.ctx.raised
                  ELSE IF rb.ctx.raised # None THEN rb.ctx.raised
                  ELSE IF KeyCompare(ra.key, rb.key) = "TypeError" THEN "TypeError"
                  ELSE None
    IN  /\ pv' = [pv EXCEPT ![1] = ra.ctx.self,
                            ![2] = IF ra.ctx.raised # None THEN @ ELSE rb.ctx.self]
        /\ pecache' = rb.ctx.cache
        /\ nres' = [nres EXCEPT ![1] = ra.ctx.nres,
                                ![2] = IF ra.ctx.raised # None THEN @ ELSE rb.ctx.nres]
        /\ UNCHANGED probe
        /\ pcall' = [NoCall EXCEPT !.op = "compare", !.raised = raised,
                        !.ka = ra.key, !.kb = rb.key,
                        !.cmp = IF raised # None THEN None
                                ELSE KeyCompare(ra.key, rb.key)]

(***************************************************************************)
(* PythonFinder (python.py 55-326).  The finder's root is a directory; the  *)
(* directories under it that the glob yields are numbered in the glob's     *)
(* order and a directory's number stands for its name.  A location is an    *)
(* executable an entry's find_all_python_versions returns, named by its     *)
(* directory and its position in that result.                               *)
(***************************************************************************)
Dirs == 1..NumDirs

\* the PythonVersion of a located executable (PathEntry.as_python)
Located(minor, patch, pre) ==
    [major |-> 3, minor |-> minor, patch |-> patch, is_prerelease |-> pre,
     is_postrelease |-> FALSE, is_devrelease |-> FALSE, is_debug |-> FALSE,
     version |-> "Version", architecture |-> None, comes_from |-> ExePath,
     executable |-> ExePath, company |-> None, name |-> <<1, 2>>]

Py391 == Located(9, 1, FALSE)

Py380 == Located(8, 0, FALSE)

\* what an entry's find_all_python_versions() returns, in its order
ExeLists == {<<>>, <<Py391>>, <<Py380, Py391>>}

\* what parse makes of a directory name: NoDict when it raises
NameDicts ==
    {[NoDict EXCEPT !.major = 3, !.minor = 9, !.patch = 1, !.version = "Version"]}

\* version_tuple of lines 169-176
VersionTuple(d) ==
    <<d.major, d.minor, d.patch, d.is_prerelease, d.is_devrelease, d.is_debug>>

NameKeys == {VersionTuple(d) : d \in NameDicts}

\* a directory under the root: one named envs, one without a bin directory,
\* or one with a bin directory, a name and executables
DirKinds ==
    {[envs |-> TRUE, bin |-> FALSE, parsed |-> NoDict, exes |-> <<>>],
     [envs |-> FALSE, bin |-> FALSE, parsed |-> NoDict, exes |-> <<>>]}
    \cup [envs : {FALSE}, bin : {TRUE}, parsed : NameDicts \cup {NoDict},
          exes : ExeLists]

\* the declared orders of a version manager: none (also for a root that is
\* neither pyenv's nor asdf's), or directory names, each at most once
DeclaredOrders == {<<>>, <<2>>, <<3, 2>>}

Range(seq) == {seq[i] : i \in 1..Len(seq)}

\* get_version_order, lines 95-118
get_version_order ==
    LET NotEnvs(d) == ~fs[d].envs
        version_paths == SelectSeq([d \in Dirs |-> d], NotEnvs)
        Known(d) == d \in Range(version_paths)
        version_order == SelectSeq(declared, Known)
        Left(d) == d \notin Range(version_order)
    IN  IF version_order # <<>>
        THEN version_order \o SelectSeq(version_paths, Left)
        ELSE version_paths

\* _iter_version_bases, lines 133-143: the directories it yields an entry for
HasBin(d) == fs[d].bin

iter_version_bases == SelectSeq(get_version_order, HasBin)

\* the except clause of lines 151-158: parse raised, so version is still None
OnInvalidName_Skip(d) == "continue"

OnInvalidName(d) ==
    LET version == NoDict
    IN  IF version = NoDict
        THEN IF ~tolerant THEN "raise" ELSE "continue"
        ELSE "yield"

\* _iter_versions consumed to its end, lines 145-177: the directories it
\* yields, the directories _iter_version_bases was asked for, and whether it
\* raised
RECURSIVE iter_versions(_)
iter_versions(bases) ==
    IF bases = <<>> THEN [yielded |-> <<>>, seen |-> {}, raised |-> None]
    ELSE LET d == Head(bases)
             rest == iter_versions(Tail(bases))
         IN  IF fs[d].parsed # NoDict
             THEN [rest EXCEPT !.yielded = <<d>> \o @, !.seen = @ \cup {d}]
             ELSE IF OnInvalidName(d) = "raise"
             THEN [yielded |-> <<>>, seen |-> {d}, raised |-> "InvalidVersion"]
             ELSE [rest EXCEPT !.seen = @ \cup {d}]

\* self._versions[version_tuple] = entry for every yielded directory, in order
RECURSIVE StoreVersions(_, _)
StoreVersions(vs, yielded) ==
    IF yielded = <<>> THEN vs
    ELSE StoreVersions([vs EXCEPT ![VersionTuple(fs[Head(yielded)].parsed)] = Head(yielded)],
                       Tail(yielded))

\* scans counts the candidate scans the versions property has run to the end
NoFind ==
    [op |-> "init", q |-> NoQuery, ran |-> FALSE, raised |-> None,
     result |-> <<>>, yielded |-> <<>>, scans |-> 0]

\* the versions property, lines 179-184
AccessVersions ==
    IF \E k \in NameKeys : fversions[k] # 0
    THEN /\ fcall' = [NoFind EXCEPT !.op = "versions", !.scans = fcall.scans]
         /\ UNCHANGED <<fs, declared, tolerant, paths, roots, fversions>>
    ELSE LET r == iter_versions(iter_version_bases)
         IN  /\ fcall.scans < MaxScans
             /\ fversions' = StoreVersions(fversions, r.yielded)
             /\ roots' = roots \cup r.seen
             /\ fcall' = [NoFind EXCEPT !.op = "versions", !.ran = TRUE,
                                        !.raised = r.raised, !.yielded = r.yielded,
                                        !.scans = IF r.raised = None
                                                  THEN fcall.scans + 1
                                                  ELSE fcall.scans]
             /\ UNCHANGED <<fs, declared, tolerant, paths>>

\* the locations of a directory's entry that match the query
RECURSIVE EntryMatches(_, _, _)
EntryMatches(d, j, q) ==
    IF j > Len(fs[d].exes) THEN <<>>
    ELSE (IF matches(Ctx(fs[d].exes[j], {}, 0), q).result
          THEN <<[dir |-> d, idx |-> j]>> ELSE <<>>) \o EntryMatches(d, j + 1, q)

\* next(iter(base.find_all_python_versions()), None), line 268; a None is
\* dropped by expand_paths
FirstPython(d) ==
    IF fs[d].exes = <<>> THEN <<>> ELSE <<[dir |-> d, idx |-> 1]>>

\* any([major, minor, patch, name]), line 266
Truthy(x) == x # NoInt /\ x # 0

AnyFilter(q) ==
    Truthy(q.major) \/ Truthy(q.minor) \/ Truthy(q.patch)
        \/ (q.name # NoName /\ q.name # <<>>)

RECURSIVE Flatten(_)
Flatten(seqs) == IF seqs = <<>> THEN <<>> ELSE Head(seqs) \o Flatten(Tail(seqs))

\* as_python.version_sort of a location
LocKey(loc) == version_sort(Ctx(fs[loc.dir].exes[loc.idx], {}, 0)).key

KeyLess(ka, kb) == KeyCompare(ka, kb) = "lt"

\* sorted(pythons, key=version_sort, reverse=True), lines 274-277: descending,
\* and stable: locations with equal keys keep their order
SortDesc_Unsorted(seq) == seq

RECURSIVE SortDesc(_)
SortDesc(seq) ==
    IF seq = <<>> THEN <<>>
    ELSE LET i == CHOOSE i \in 1..Len(seq) :
                    /\ \A j \in 1..Len(seq) : ~KeyLess(LocKey(seq[i]), LocKey(seq[j]))
                    /\ \A j \in 1..(i - 1) : KeyLess(LocKey(seq[j]), LocKey(seq[i]))
             rest == [j \in 1..(Len(seq) - 1) |-> IF j < i THEN seq[j] ELSE seq[j + 1]]
         IN  <<seq[i]>> \o SortDesc(rest)

\* find_all_python_versions, lines 238-278
find_all_python_versions(q) ==
    LET bases == iter_version_bases
        pythons == IF ~AnyFilter(q)
                   THEN Flatten([i \in 1..Len(bases) |-> FirstPython(bases[i])])
                   ELSE Flatten([i \in 1..Len(paths) |-> EntryMatches(paths[i], 1, q)])
    IN  /\ roots' = IF ~AnyFilter(q) THEN roots \cup Range(bases) ELSE roots
        /\ fcall' = [NoFind EXCEPT !.op = "find_all", !.q = q, !.ran = TRUE,
                                   !.result = SortDesc(pythons),
                                   !.scans = fcall.scans]
        /\ UNCHANGED <<fs, declared, tolerant, paths, fversions>>

\* the queries find_all_python_versions is called with: pre, dev and arch at
\* their default None, and none or one of major, minor, patch, name set
NoFilter == [NoQuery EXCEPT !.pre = "None", !.dev = "None"]

FQueries ==
    {NoFilter,
     [NoFilter EXCEPT !.major = 3], [NoFilter EXCEPT !.minor = 9],
     [NoFilter EXCEPT !.patch = 1], [NoFilter EXCEPT !.patch = 0],
     [NoFilter EXCEPT !.name = <<1>>]}

IdleFinder ==
    /\ fs = [d \in Dirs |-> [envs |-> TRUE, bin |-> FALSE, parsed |-> NoDict, exes |-> <<>>]]
    /\ declared = <<>>
    /\ tolerant = TRUE
    /\ paths = <<>>
    /\ roots = {}
    /\ fversions = [k \in NameKeys |-> 0]
    /\ fcall = NoFind

\* a finder after its construction: paths' default (get_paths, lines 195-198)
\* has run _iter_version_bases once
FinderInit ==
    /\ fs \in [Dirs -> DirKinds]
    /\ declared \in DeclaredOrders
    /\ tolerant \in BOOLEAN
    /\ paths = iter_version_bases
    /\ roots = Range(iter_version_bases)
    /\ fversions = [k \in NameKeys |-> 0]
    /\ fcall = NoFind

(***************************************************************************)
(* PythonVersion.parse, parse_executable and from_path (python.py 488-600). *)
(* Both lru_caches return the dict object they hold: a dict is identified   *)
(* by the version string parse was called with, and from_path's update      *)
(* (line 577) writes into that object.                                      *)
(***************************************************************************)
Locs == {1, 2}

\* the strings a location is named with and a probe prints
VStrs == {"3.9.1", "3.9", "3", "junk"}

\* a name given to from_path by the caller
GivenName == "custom"

\* parse_python_version: the dict of a version string, NoDict when the string
\* is not a version
ParseOf(s) ==
    LET d == [NoDict EXCEPT !.major = 3, !.version = "Version"]
    IN  IF s = "3.9.1" THEN [d EXCEPT !.minor = 9, !.patch = 1]
        ELSE IF s = "3.9" THEN [d EXCEPT !.minor = 9]
        ELSE IF s = "3" THEN d
        ELSE NoDict

\* get_python_version raised or returned None, lines 593-598
ProbeFailed == "failed"

\* a PathEntry: its name, is_python, looks_like_python of its file name, and
\* what get_python_version prints for its file
LocKinds ==
    {k \in [name : VStrs, is_python : BOOLEAN, looks : BOOLEAN,
            probe : VStrs \cup {ProbeFailed}] : k.is_python => k.looks}

\* the keys from_path adds to a dict; 0 and None while not written
NoExtras == [comes_from |-> 0, name |-> None, executable |-> 0]

\* not in the lru_cache of parse
NotCached == [cached |-> FALSE, extras |-> NoExtras]

\* the state a call threads through: the two caches, the exception raised
\* and the dict returned (the string that identifies it)
CallState(pc, xc) == [pc |-> pc, xc |-> xc, raised |-> None, ref |-> None]

\* parse(version), lines 488-509: a result is cached, an exception is not
parse(st, version) ==
    IF version = None THEN [st EXCEPT !.raised = "TypeError"]
    ELSE IF st.pc[version].cached THEN [st EXCEPT !.ref = version]
    ELSE IF ParseOf(version) = NoDict THEN [st EXCEPT !.raised = "ValueError"]
    ELSE [st EXCEPT !.pc[version] = [cached |-> TRUE, extras |-> NoExtras],
                    !.ref = version]

\* parse_executable(path), lines 582-600
parse_executable(st, loc) ==
    IF st.xc[loc] # None THEN [st EXCEPT !.ref = st.xc[loc]]
    ELSE IF locs[loc].probe = ProbeFailed THEN [st EXCEPT !.raised = "ValueError"]
    ELSE LET r == parse(st, locs[loc].probe)
         IN  IF r.raised # None THEN r ELSE [r EXCEPT !.xc[loc] = r.ref]

NoFromPath ==
    [op |-> "init", loc |-> 0, tolerant |-> FALSE, namefail |-> FALSE,
     probefail |-> FALSE, raised |-> None, ref |-> None, result |-> NoExtras]

\* what from_path's try statement leaves, lines 558-564
ResolveName(st, loc) ==
    LET r1 == parse(st, locs[loc].name)
    IN  IF r1.raised # None
        THEN parse_executable([r1 EXCEPT !.raised = None], loc)
        ELSE IF ParseOf(r1.ref).minor = NoInt /\ locs[loc].looks
             THEN parse_executable(r1, loc)
             ELSE r1

\* from_path(path, name, ignore_unsupported), lines 524-580: the caches it
\* leaves and how it ended.  The caches keep what parse and parse_executable
\* stored before an exception.
FromPathOutcome(loc, name, ignore_unsupported) ==
    LET iu == ignore_unsupported \/ IGNORE_UNSUPPORTED
        path_name == locs[loc].name
        st0 == CallState(strcache, execache)
        unsupported == ~locs[loc].is_python /\ ~iu
        r1 == parse(st0, path_name)
        r2 == ResolveName(st0, loc)
        noversion == /\ r2.raised = None
                     /\ ParseOf(r2.ref).version = None
                     /\ ~iu
        r3 == IF r2.raised = None /\ ~noversion /\ ParseOf(r2.ref).patch = NoInt
              THEN parse_executable(r2, loc)
              ELSE r2
        extras == [comes_from |-> loc,
                   name |-> IF name = None THEN path_name ELSE name,
                   executable |-> loc]
        done == ~unsupported /\ ~noversion /\ r3.raised = None
        raised == IF unsupported \/ noversion THEN "ValueError" ELSE r3.raised
    IN  [pc |-> IF unsupported THEN strcache
                ELSE IF done THEN [r3.pc EXCEPT ![r3.ref].extras = extras]
                ELSE r3.pc,
         xc |-> IF unsupported THEN execache ELSE r3.xc,
         call |-> [op |-> "from_path", loc |-> loc, tolerant |-> iu,
                   namefail |-> ~unsupported /\ r1.raised # None,
                   probefail |-> ~unsupported /\ r3.raised # None,
                   raised |-> raised,
                   ref |-> IF done THEN r3.ref ELSE None,
                   result |-> IF done THEN extras ELSE NoExtras]]

from_path(loc, name, ignore_unsupported) ==
    \E out \in {FromPathOutcome(loc, name, ignore_unsupported)} :
        /\ strcache' = out.pc
        /\ execache' = out.xc
        /\ fpcall' = out.call
        /\ UNCHANGED <<locs, IGNORE_UNSUPPORTED>>

\* a call of parse(version) from outside the class, lines 488-509: the dict
\* returned is the cached object, seen here through the keys from_path adds
CallParse(version) ==
    \E r \in {parse(CallState(strcache, execache), version)} :
        /\ strcache' = r.pc
        /\ fpcall' = [NoFromPath EXCEPT
                         !.op = "parse", !.raised = r.raised, !.ref = r.ref,
                         !.result = IF r.raised = None THEN r.pc[version].extras
                                    ELSE NoExtras]
        /\ UNCHANGED <<locs, IGNORE_UNSUPPORTED, execache>>

IdleFromPath ==
    /\ locs = [l \in Locs |-> [name |-> "junk", is_python |-> FALSE,
                               looks |-> FALSE, probe |-> ProbeFailed]]
    /\ IGNORE_UNSUPPORTED = FALSE
    /\ strcache = [s \in VStrs |-> NotCached]
    /\ execache = [l \in Locs |-> None]
    /\ fpcall = NoFromPath

\* the process before any call: both caches empty
FromPathInit ==
    /\ locs \in [Locs -> LocKinds]
    /\ IGNORE_UNSUPPORTED \in BOOLEAN
    /\ strcache = [s \in VStrs |-> NotCached]
    /\ execache = [l \in Locs |-> None]
    /\ fpcall = NoFromPath

(***************************************************************************)
(* The specifications: one per class, the other classes' state idle.        *)
(***************************************************************************)
\* a call is made while the bound on the number of calls allows it
Counted == ncalls < MaxCalls /\ ncalls' = ncalls + 1

InitIndex == VMInit /\ IdlePV /\ IdleFinder /\ IdleFromPath

NextIndex ==
    \/ \E m \in Maps, e \in Entries : Counted /\ add_entry(m, e) /\ UNCHANGED <<pvars, fvars, lvars>>
    \/ \E s \in Maps, t \in Maps : Counted /\ merge(s, t) /\ UNCHANGED <<pvars, fvars, lvars>>

SpecIndex == InitIndex /\ [][NextIndex]_vars

\* an instance is read while the bound on its resolutions allows it
Resolvable(i) == nres[i] < MaxRes

InitModel == PVInit /\ IdleVM /\ IdleFinder /\ IdleFromPath /\ ncalls = 0

NextModel ==
    \/ \E i \in Insts, key \in {"minor", "patch"} :
            Resolvable(i) /\ ReadAttr(i, key) /\ UNCHANGED <<ivars, fvars, lvars, ncalls>>
    \/ \E i \in Insts :
            Resolvable(i) /\ ReadVersionSort(i) /\ UNCHANGED <<ivars, fvars, lvars, ncalls>>
    \/ \E i \in Insts, q \in Queries :
            Resolvable(i) /\ CallMatches(i, q) /\ UNCHANGED <<ivars, fvars, lvars, ncalls>>
    \/ Resolvable(1) /\ RankCompare /\ UNCHANGED <<ivars, fvars, lvars, ncalls>>

SpecModel == InitModel /\ [][NextModel]_vars

InitRank == RankInit /\ IdleVM /\ IdleFinder /\ IdleFromPath /\ ncalls = 0

NextRank == RankCompare /\ UNCHANGED <<ivars, fvars, lvars, ncalls>>

SpecRank == InitRank /\ [][NextRank]_vars

InitFinder == FinderInit /\ IdleVM /\ IdlePV /\ IdleFromPath /\ ncalls = 0

NextFinder ==
    \/ \E q \in FQueries :
            find_all_python_versions(q) /\ UNCHANGED <<ivars, pvars, lvars, ncalls>>
    \/ AccessVersions /\ UNCHANGED <<ivars, pvars, lvars, ncalls>>

SpecFinder == InitFinder /\ [][NextFinder]_vars

InitFromPath == FromPathInit /\ IdleVM /\ IdlePV /\ IdleFinder /\ ncalls = 0

NextFromPath ==
    \/ \E loc \in Locs, name \in {None, GivenName}, ignore_unsupported \in BOOLEAN :
            from_path(loc, name, ignore_unsupported) /\ UNCHANGED <<ivars, pvars, fvars, ncalls>>
    \/ \E loc \in Locs :
            CallParse(locs[loc].name) /\ UNCHANGED <<ivars, pvars, fvars, ncalls>>

SpecFromPath == InitFromPath /\ [][NextFromPath]_vars

\* the entries a map holds under a key
Held(m, k) == EntriesOf(versions, lists, m, k)

NoDuplicatePath(seq) ==
    \A i, j \in 1..Len(seq) : seq[i].path = seq[j].path => i = j

\* C1: after any sequence of add_entry and merge calls on maps that start
\* empty, no key of any map holds two entries with the same path.
C1_DistinctPaths == \A m \in Maps, k \in VKeys : NoDuplicatePath(Held(m, k))

\* an add_entry met a path already stored under the key, beside another path
C1_Witness ==
    /\ vmcall.op = "add_entry"
    /\ vmcall.outcome = "present"
    /\ \E k \in VKeys : Len(Held(vmcall.self, k)) >= 2

\* C2: merge is idempotent: in the state a self.merge(target) leaves, a second
\* self.merge(target) changes no key and no entry list.
C2_MergeIdempotent ==
    vmcall.op = "merge" =>
        /\ MergeVersions(versions, vmcall.self, vmcall.target) = versions
        /\ MergeLists(versions, lists, vmcall.self, vmcall.target) = lists

\* a merge of another map has just changed self
C2_Witness ==
    /\ vmcall.op = "merge"
    /\ vmcall.outcome = "changed"
    /\ vmcall.self # vmcall.target
    /\ \E k \in VKeys : Len(Held(vmcall.self, k)) >= 2

\* self's list followed by target's entries whose path self did not hold
StableUnion(mine, theirs) ==
    LET Absent(e) == e.path \notin PathsOf(mine)
    IN  mine \o SelectSeq(theirs, Absent)

\* C3: merge is an order-stable union: after self.merge(target) every key
\* holds self's previous list followed by target's entries with a path not
\* yet present, in target's order; a key only self held is unchanged, and no
\* other key appears.
C3_MergeStableUnion ==
    [][vmcall'.op = "merge" =>
        \A k \in VKeys :
            /\ EntriesOf(versions', lists', vmcall'.self, k)
                 = StableUnion(Held(vmcall'.self, k), Held(vmcall'.target, k))
            /\ (versions'[vmcall'.self][k] # NoList)
                 <=> (versions[vmcall'.self][k] # NoList
                      \/ versions[vmcall'.target][k] # NoList)]_vars

\* a merge appended to a list self already had, from a list of its own of
\* target's that starts with another path
C3_Witness ==
    /\ vmcall.op = "merge"
    /\ vmcall.outcome = "changed"
    /\ \E k \in VKeys :
        /\ versions[vmcall.self][k] # versions[vmcall.target][k]
        /\ Len(Held(vmcall.self, k)) >= 2
        /\ Len(Held(vmcall.target, k)) >= 2
        /\ Held(vmcall.self, k)[1] # Held(vmcall.target, k)[1]

\* the release kind of an instance as the claim ranks it: 3 postrelease,
\* 2 release, 1 prerelease or debug, 0 devrelease
ClaimKind(m) ==
    IF m.is_postrelease THEN 3
    ELSE IF m.is_devrelease THEN 0
    ELSE IF m.is_prerelease \/ m.is_debug THEN 1
    ELSE 2

\* C4: two instances with the same distributor and equal (major, minor,
\* patch) whose release kinds differ are ordered by their rank keys as
\* postrelease > release > prerelease or debug > devrelease, whatever the
\* combination of the four flags.
C4_RankOrdersKinds ==
    (/\ pcall.op = "compare"
     /\ pcall.raised = None
     /\ pv[1].company = pv[2].company
     /\ pv[1].major = pv[2].major
     /\ pv[1].minor = pv[2].minor
     /\ pv[1].patch = pv[2].patch
     /\ ClaimKind(pv[1]) > ClaimKind(pv[2]))
    => pcall.cmp = "gt"

\* C8: matches and the rank key never raise, and the rank keys of two
\* instances are comparable.
C8_NeverRaises ==
    pcall.op \in {"matches", "version_sort", "compare"} => pcall.raised = None

\* C10: the lazy resolution of an instance's minor and patch is triggered at
\* most once, by the first read; later reads use what the instance holds.
C10_ResolvedOnce == \A i \in Insts : nres[i] <= 1

\* the PythonVersion of a returned location
ModelOf(loc) == fs[loc.dir].exes[loc.idx]

\* the place of a directory in the root enumeration
PosOf(d) == CHOOSE i \in 1..Len(iter_version_bases) : iter_version_bases[i] = d

OnePerDir(result) ==
    \A i, j \in 1..Len(result) : result[i].dir = result[j].dir => i = j

InRootOrder(result) ==
    \A i, j \in 1..Len(result) : i < j => PosOf(result[i].dir) < PosOf(result[j].dir)

RankDescending(result) ==
    \A i, j \in 1..Len(result) : i < j => ~KeyLess(LocKey(result[i]), LocKey(result[j]))

\* C5 as stated: find_all_python_versions() without filters returns at most
\* one location per enumerated root, in the roots' enumeration order.
C5_RootOrder ==
    (fcall.op = "find_all" /\ fcall.q = NoFilter) =>
        OnePerDir(fcall.result) /\ InRootOrder(fcall.result)

\* C5 as amended: find_all_python_versions() without filters returns at most
\* one location per enumerated root, sorted descending by rank key; locations
\* with equal rank keys are in the roots' enumeration order.
C5_RankOrder ==
    (fcall.op = "find_all" /\ fcall.q = NoFilter) =>
        /\ OnePerDir(fcall.result)
        /\ RankDescending(fcall.result)
        /\ \A i, j \in 1..Len(fcall.result) :
            (i < j /\ LocKey(fcall.result[i]) = LocKey(fcall.result[j]))
                => PosOf(fcall.result[i].dir) < PosOf(fcall.result[j].dir)

\* an unfiltered call returned a later root's location before an earlier
\* root's, which ranks lower
C5_Witness ==
    /\ fcall.op = "find_all"
    /\ fcall.q = NoFilter
    /\ \E i \in 1..(Len(fcall.result) - 1) :
        /\ PosOf(fcall.result[i].dir) > PosOf(fcall.result[i + 1].dir)
        /\ KeyLess(LocKey(fcall.result[i + 1]), LocKey(fcall.result[i]))

\* a query that constrains major, minor, patch or name
Constrains(q) ==
    q.major # NoInt \/ q.minor # NoInt \/ q.patch # NoInt \/ q.name # NoName

Satisfies(m, q) ==
    /\ q.major = NoInt \/ m.major = q.major
    /\ q.minor = NoInt \/ m.minor = q.minor
    /\ q.patch = NoInt \/ m.patch = q.patch
    /\ q.name = NoName \/ (m.name # NoName /\ StartsWith(m.name, q.name))

\* C6: for every query that constrains major, minor, patch or name, 0
\* included, find_all_python_versions returns only locations whose version
\* satisfies the query, sorted descending by rank key.
C6_FilteredFind ==
    (fcall.op = "find_all" /\ Constrains(fcall.q)) =>
        /\ \A i \in 1..Len(fcall.result) : Satisfies(ModelOf(fcall.result[i]), fcall.q)
        /\ RankDescending(fcall.result)

\* the enumerated directories with an unparsable name and no executable
BadDirs ==
    {d \in Range(iter_version_bases) : fs[d].parsed = NoDict /\ fs[d].exes = <<>>}

\* C7: a candidate with an unparsable name and no runnable executable is
\* skipped in tolerant mode, the enumeration going on to the other candidates
\* and raising nothing, and makes the enumeration raise InvalidVersion in
\* strict mode.
C7_UnparsableEmpty ==
    (fcall.op = "versions" /\ fcall.ran /\ BadDirs # {}) =>
        IF tolerant
        THEN /\ fcall.raised = None
             /\ \A d \in BadDirs : d \notin Range(fcall.yielded)
             /\ \A d \in Range(iter_version_bases) :
                    fs[d].parsed # NoDict => d \in Range(fcall.yielded)
        ELSE fcall.raised = "InvalidVersion"

\* a tolerant enumeration went past such a candidate and yielded a later one
C7_Witness ==
    /\ fcall.op = "versions"
    /\ fcall.ran
    /\ tolerant
    /\ \E b \in BadDirs, d \in Range(fcall.yielded) : PosOf(b) < PosOf(d)

\* C9: when parsing the location's name and probing its executable both fail,
\* from_path raises ValueError if it is not tolerant, and returns a model
\* without raising if it is tolerant
C9_BothFail ==
    (fpcall.op = "from_path" /\ fpcall.namefail /\ fpcall.probefail) =>
        IF fpcall.tolerant
        THEN fpcall.raised = None /\ fpcall.ref # None
        ELSE fpcall.raised = "ValueError"

\* C11: the version index is computed once per finder: over any sequence of
\* accesses and queries the candidate scan runs to its end at most once, and
\* every later access of versions reuses the index
C11_ScanOnce == fcall.scans <= 1

\* the candidates whose name does not parse and that hold an executable
Fallbacks ==
    {d \in Range(iter_version_bases) : fs[d].parsed = NoDict /\ fs[d].exes # <<>>}

\* C12: a candidate whose directory name does not parse and which holds a
\* runnable executable is yielded, in tolerant and in strict mode: a scan over
\* candidates that all parse or hold an executable raises nothing and yields
\* every such candidate
C12_FallbackYields ==
    (/\ fcall.op = "versions" /\ fcall.ran
     /\ BadDirs = {}) =>
        /\ fcall.raised = None
        /\ Fallbacks \subseteq Range(fcall.yielded)

\* C13: parse is a memoized pure function of its string: after any sequence of
\* parse and from_path calls, the dict a parse call returns carries none of
\* the fields (source location, name, executable) written for a location
C13_ParsePure ==
    (fpcall.op = "parse" /\ fpcall.raised = None) => fpcall.result = NoExtras

\* the keys and entry lists a map holds
Contents(vs, ls, m) ==
    [k \in VKeys |-> [held |-> vs[m][k] # NoList, entries |-> EntriesOf(vs, ls, m, k)]]

\* C14: two maps stay independent across merge: an add_entry or a merge on
\* one map leaves the keys and the entry lists of every other map unchanged,
\* also for the keys the map adopted from the other
C14_Independent ==
    [][\A m \in Maps :
        vmcall'.self # m =>
            Contents(versions', lists', m) = Contents(versions, lists, m)]_vars

====
